---- MODULE Spec2Model ----
(***************************************************************************)
(* DartBoard (src/dartboard.py): weighted random selection from a list of  *)
(* (number, probability) pairs, by a two-tier selection table or by the    *)
(* stock random.choices ('simple').                                        *)
(*                                                                         *)
(* Numbers are kept in fixed point.  A probability is an integer count of  *)
(* 1/One (One is the literal 1.0), the decimal a caller writes; a rounded  *)
(* normalized weight is an integer count of 1/WeightUnit (three decimals,  *)
(* the finest rounder of the code).  The code computes on floats: where a  *)
(* float result can differ from the exact one (a quotient half-way between *)
(* two roundings, a product that is an integer) and in the running sums of *)
(* random.choices the IEEE 754 doubles are worked out bit by bit, on       *)
(* naturals of any size.                                                   *)
(*                                                                         *)
(* The module-level generator of `random` is one process-wide state, rng,  *)
(* that every constructor reseeds and every draw of every object advances. *)
(* Its outputs are not computed: a call returns any value of its range,    *)
(* and the calls after random.seed(n) return what they returned after any  *)
(* earlier random.seed(n) (tape).                                          *)
(*                                                                         *)
(* A selection table is a list of the process that its object refers to:   *)
(* lists holds the table lists made so far, in the order they were made,   *)
(* and the attribute selection_table of an object in objects is the place  *)
(* of its list in lists.  eng shows every object with the table it refers  *)
(* to.                                                                     *)
(***************************************************************************)
EXTENDS Integers, Sequences, FiniteSets, TLC

VARIABLES objects, lists, rng, tape

vars == <<objects, lists, rng, tape>>

-----------------------------------------------------------------------------
(* Bounds of the model and the inputs it draws from.                       *)

MaxPop == 3

MaxDraws == 2
MaxDrawsThree == 3

One == 10000

WeightUnit == 1000

SmallPopulation == 1000

MediumPopulation == 100000

None == -1

Values == {1, 2, 7}

Probs == {-2500, 0, 2500, 5000, 7501, 10000}

Methods == {"two-tier", "simple", "three-tier"}

Seeds == {None, 1}

SeedsTwo == {None, 1}

MethodsTwo == {"two-tier", "simple"}

Entries == Values \X Probs

Populations == UNION {[1..k -> Entries] : k \in 0..MaxPop}

-----------------------------------------------------------------------------
(* Exceptions and results.                                                 *)

NoExc ==
    [type |-> "none", raised_in |-> "none", what |-> "none",
     position |-> None, other |-> None]

Exc(type, raised_in, what, position, other) ==
    [type |-> type, raised_in |-> raised_in, what |-> what,
     position |-> position, other |-> other]

Return(v) == [returned |-> TRUE, value |-> v, exc |-> NoExc]

Raise(e) == [returned |-> FALSE, value |-> None, exc |-> e]

-----------------------------------------------------------------------------
(* Arithmetic of the code on exact values.                                 *)

\* Python's round(): to the nearest, a tie to the even neighbour (den > 0).
RoundHalfEven(num, den) ==
    LET q == num \div den
        r == num - q * den
    IN  IF 2 * r < den THEN q
        ELSE IF 2 * r > den THEN q + 1
        ELSE IF q % 2 = 0 THEN q ELSE q + 1

\* Python's int(): truncation toward zero of num/den (den > 0).
IntTrunc(num, den) ==
    IF num >= 0 THEN num \div den ELSE -((-num) \div den)

Pow10(k) == IF k = 1 THEN 10 ELSE IF k = 2 THEN 100 ELSE 1000

\* rounder = 3 if population_size < 1000 else 2 if population_size < 100000 else 1
Rounder(population_size) ==
    IF population_size < SmallPopulation THEN 3
    ELSE IF population_size < MediumPopulation THEN 2 ELSE 1

-----------------------------------------------------------------------------
(* Naturals of any size, for the 53-bit significands of the floats: a      *)
(* little-endian sequence of limbs below Limb without a leading zero limb. *)

LimbBits == 15

Limb == 2^LimbBits

RECURSIVE Trim(_)
Trim(a) == IF a # <<>> /\ a[Len(a)] = 0 THEN Trim(SubSeq(a, 1, Len(a) - 1)) ELSE a

RECURSIVE BigOf(_)
BigOf(n) == IF n = 0 THEN <<>> ELSE <<n % Limb>> \o BigOf(n \div Limb)

RECURSIVE IntOf(_)
IntOf(a) == IF a = <<>> THEN 0 ELSE a[1] + Limb * IntOf(Tail(a))

\* The natural whose limbs are the digits d (each may exceed Limb) plus the carry c.
RECURSIVE Carry(_, _)
Carry(d, c) ==
    IF d = <<>> THEN BigOf(c)
    ELSE <<(d[1] + c) % Limb>> \o Carry(Tail(d), (d[1] + c) \div Limb)

LimbAt(a, i) == IF i <= Len(a) THEN a[i] ELSE 0

BigAdd(a, b) ==
    Carry([i \in 1..(IF Len(a) > Len(b) THEN Len(a) ELSE Len(b)) |->
              LimbAt(a, i) + LimbAt(b, i)], 0)

\* a - b for a >= b, from limb i on with the borrow c.
RECURSIVE Borrow(_, _, _, _)
Borrow(a, b, i, c) ==
    IF i > Len(a) THEN <<>>
    ELSE <<(a[i] - LimbAt(b, i) - c) % Limb>>
             \o Borrow(a, b, i + 1, IF a[i] - LimbAt(b, i) - c < 0 THEN 1 ELSE 0)

BigSub(a, b) == Trim(Borrow(a, b, 1, 0))

\* a * k for 0 <= k < Limb.
BigMulSmall(a, k) == Trim(Carry([i \in 1..Len(a) |-> a[i] * k], 0))

\* a * Limb
ShiftLimb(a) == IF a = <<>> THEN <<>> ELSE <<0>> \o a

RECURSIVE BigMul(_, _)
BigMul(a, b) ==
    IF a = <<>> \/ b = <<>> THEN <<>>
    ELSE BigAdd(BigMulSmall(a, b[1]), ShiftLimb(BigMul(a, Tail(b))))

RECURSIVE BigLessFrom(_, _, _)
BigLessFrom(a, b, i) ==
    IF i = 0 THEN FALSE
    ELSE IF a[i] # b[i] THEN a[i] < b[i]
    ELSE BigLessFrom(a, b, i - 1)

BigLess(a, b) ==
    IF Len(a) # Len(b) THEN Len(a) < Len(b) ELSE BigLessFrom(a, b, Len(a))

RECURSIVE SmallBitLen(_)
SmallBitLen(n) == IF n = 0 THEN 0 ELSE 1 + SmallBitLen(n \div 2)

BitLen(a) ==
    IF a = <<>> THEN 0 ELSE (Len(a) - 1) * LimbBits + SmallBitLen(a[Len(a)])

\* a * 2^k
Shl(a, k) ==
    IF a = <<>> THEN <<>>
    ELSE [i \in 1..(k \div LimbBits) |-> 0] \o BigMulSmall(a, 2^(k % LimbBits))

\* floor(a / (Limb^q * 2^r)), 0 <= r < LimbBits
ShrLimbs(a, q, r) ==
    IF q >= Len(a) THEN <<>>
    ELSE Trim([i \in 1..(Len(a) - q) |->
                  (a[i + q] \div 2^r) + (LimbAt(a, i + q + 1) % 2^r) * 2^(LimbBits - r)])

\* floor(a / 2^k)
Shr(a, k) == ShrLimbs(a, k \div LimbBits, k % LimbBits)

Bit(a, i) == (LimbAt(a, i \div LimbBits + 1) \div 2^(i % LimbBits)) % 2

\* q, or q + 1 when the part cut off is above the middle, or in the middle and q odd.
Bump(q, half, inexact) ==
    IF half /\ (inexact \/ Bit(q, 0) = 1) THEN BigAdd(q, <<1>>) ELSE q

\* Round-half-even of a / 2^s, s >= 0; sticky tells that a itself was cut
\* from a larger value, so that an apparent tie lies above the middle.
RoundShift(a, s, sticky) ==
    IF s = 0 THEN a
    ELSE Bump(Shr(a, s), Bit(a, s - 1) = 1, sticky \/ Shl(Shr(a, s - 1), s - 1) # a)

\* The quotient rest with one more limb on top.
PutLimb(rest, limb) == [rest EXCEPT !.q = Append(@, limb)]

RECURSIVE DivSmallFrom(_, _, _, _)

DivSmallFrom(a, d, i, r) ==
    IF i = 0 THEN [q |-> <<>>, r |-> r]
    ELSE PutLimb(DivSmallFrom(a, d, i - 1, (r * Limb + a[i]) % d), (r * Limb + a[i]) \div d)

TrimQuotient(out) == [out EXCEPT !.q = Trim(@)]

SmallQuotient(out) == [q |-> Trim(out.q), r |-> BigOf(out.r)]

BigDivSmall(a, d) == SmallQuotient(DivSmallFrom(a, d, Len(a), 0))

\* For r < m: the k-bit quotient floor(r * 2^k / m), on top of the bits d
\* already found, and the remainder; binary long division.
RECURSIVE DivBits(_, _, _, _)
RECURSIVE DivStep(_, _, _, _)
DivStep(r2, k, m, d) ==
    IF BigLess(r2, m) THEN DivBits(r2, k - 1, m, 2 * d)
    ELSE DivBits(BigSub(r2, m), k - 1, m, 2 * d + 1)

DivBits(r, k, m, d) ==
    IF k = 0 THEN [d |-> d, r |-> r] ELSE DivStep(Shl(r, 1), k, m, d)

\* For r < m: the n limbs of floor(r * Limb^n / m), and as r what is left of r.
RECURSIVE DivLimbs(_, _, _)
RECURSIVE DivNext(_, _, _)
DivNext(top, n, m) == PutLimb(DivLimbs(top.r, n - 1, m), top.d)

DivLimbs(r, n, m) ==
    IF n = 0 THEN [q |-> <<>>, r |-> r] ELSE DivNext(DivBits(r, LimbBits, m, 0), n, m)

-----------------------------------------------------------------------------
(* IEEE 754 doubles, the floats of Python: (-1)^neg * m * 2^e with m = 0   *)
(* or 2^52 <= m < 2^53, every operation rounded to the nearest, a tie to   *)
(* the even significand.  Overflow, underflow and subnormals are outside   *)
(* the magnitudes of the model.                                            *)

MantissaBits == 53

GuardBits == 75

FloatZero == [neg |-> FALSE, m |-> <<>>, e |-> 0]

\* m * 2^e with m rounded to MantissaBits bits or one more (then 2^MantissaBits).
Renormalized(neg, m, e) ==
    IF BitLen(m) > MantissaBits THEN [neg |-> neg, m |-> Shr(m, 1), e |-> e + 1]
    ELSE [neg |-> neg, m |-> m, e |-> e]

NearestOfLen(neg, a, e, inexact, len) ==
    IF len <= MantissaBits
    THEN [neg |-> neg, m |-> Shl(a, MantissaBits - len), e |-> e - (MantissaBits - len)]
    ELSE Renormalized(neg, RoundShift(a, len - MantissaBits, inexact),
                      e + len - MantissaBits)

\* The double nearest to (-1)^neg * a * 2^e, a # 0; inexact as in RoundShift.
Nearest(neg, a, e, inexact) == NearestOfLen(neg, a, e, inexact, BitLen(a))

Abs(n) == IF n < 0 THEN -n ELSE n

NearestQuotient(neg, out, e) == Nearest(neg, out.q, e, out.r # <<>>)

\* The float of the decimal num/den (a literal such as 0.25 is 2500/One), 0 < den < Limb.
Float(num, den) ==
    IF num = 0 THEN FloatZero
    ELSE NearestQuotient(num < 0, BigDivSmall(Shl(BigOf(Abs(num)), GuardBits), den),
                         -GuardBits)

\* 2^(MantissaBits - 1), the significand of a power of two.
Half == Shl(<<1>>, MantissaBits - 1)

\* The limbs of the quotient of two significands worked out by FloatReciprocal.
QuotientLimbs == (MantissaBits + LimbBits - 1) \div LimbBits

\* 1.0 / y, y # 0.
FloatReciprocal(y) ==
    IF y.m = Half THEN Nearest(y.neg, <<1>>, -(MantissaBits - 1) - y.e, FALSE)
    ELSE NearestQuotient(y.neg, TrimQuotient(DivLimbs(Half, QuotientLimbs, y.m)),
                         -(MantissaBits - 1) - QuotientLimbs * LimbBits - y.e)

\* x * y
FloatMul(x, y) ==
    IF x.m = <<>> \/ y.m = <<>> THEN FloatZero
    ELSE Nearest(x.neg # y.neg, BigMul(x.m, y.m), x.e + y.e, FALSE)

Signed(neg, n) == IF neg THEN -n ELSE n

\* Round-half-even of a * 2^e.
RoundScaled(a, e) == IF e >= 0 THEN Shl(a, e) ELSE RoundShift(a, -e, FALSE)

\* round(x, ndigits) in units of 1/scale, scale = 10^ndigits: the decimal
\* nearest to the exact value of the float, a tie to the even digit.
FloatRound(x, scale) == Signed(x.neg, IntOf(RoundScaled(BigMulSmall(x.m, scale), x.e)))

\* int(x): truncation toward zero.
FloatInt(x) ==
    Signed(x.neg, IntOf(IF x.e >= 0 THEN Shl(x.m, x.e) ELSE Shr(x.m, -x.e)))

\* (-1)^neg_a * a * 2^e + (-1)^neg_b * b * 2^e, a and b not 0.
SignedSum(neg_a, a, neg_b, b, e) ==
    IF neg_a = neg_b THEN Nearest(neg_a, BigAdd(a, b), e, FALSE)
    ELSE IF a = b THEN FloatZero
    ELSE IF BigLess(a, b) THEN Nearest(neg_b, BigSub(b, a), e, FALSE)
    ELSE Nearest(neg_a, BigSub(a, b), e, FALSE)

\* x + y
FloatAdd(x, y) ==
    IF x.m = <<>> THEN y
    ELSE IF y.m = <<>> THEN x
    ELSE IF x.e >= y.e THEN SignedSum(x.neg, Shl(x.m, x.e - y.e), y.neg, y.m, y.e)
    ELSE SignedSum(x.neg, x.m, y.neg, Shl(y.m, y.e - x.e), x.e)

\* abs(x) < abs(y)
MagnitudeLess(x, y) ==
    IF y.m = <<>> THEN FALSE
    ELSE IF x.m = <<>> THEN TRUE
    ELSE IF x.e # y.e THEN x.e < y.e
    ELSE BigLess(x.m, y.m)

\* x < y
FloatLess(x, y) ==
    IF x.neg # y.neg THEN x.neg
    ELSE IF x.neg THEN MagnitudeLess(y, x)
    ELSE MagnitudeLess(x, y)

-----------------------------------------------------------------------------
(* The float arithmetic of the constructor.  A float product differs from  *)
(* the exact one by less than one part in 2^50, far less than the distance *)
(* of a quotient of two integers below 2^31 from a rounding boundary it is *)
(* not on.  So the floats are only worked out where the exact value lies   *)
(* on the boundary, and elsewhere the exact value is rounded.              *)

\* round(p * normalizer, rounder) with normalizer = 1.0 / min_prob, min_prob # 0,
\* in units of 1/WeightUnit; p and min_prob are the literals p/One, min_prob/One.
\* The boundary: p / min_prob half-way between two decimals of rounder digits.
NormalizedWeight(p, min_prob, rounder) ==
    LET sgn == IF min_prob < 0 THEN -1 ELSE 1
        num == sgn * p * Pow10(rounder)
        den == sgn * min_prob
        normalizer == FloatReciprocal(Float(min_prob, One))
    IN  (IF (2 * num) % den = 0 /\ num % den # 0
         THEN FloatRound(FloatMul(Float(p, One), normalizer), Pow10(rounder))
         ELSE RoundHalfEven(num, den))
            * (WeightUnit \div Pow10(rounder))

\* max() of a non-empty sequence: the normalizer taken from the largest probability.
SeqMin_max(s) ==
    CHOOSE m \in {s[i] : i \in 1..Len(s)} : \A i \in 1..Len(s) : m >= s[i]

\* min(self.probabilities) on a non-empty list.
SeqMin(s) ==
    CHOOSE m \in {s[i] : i \in 1..Len(s)} : \A i \in 1..Len(s) : m <= s[i]

\* Tuple order of Python: (p1, n1) < (p2, n2).
PairLess(a, b) == a[1] < b[1] \/ (a[1] = b[1] /\ a[2] < b[2])

\* list.sort() on (probability, number) tuples.
RECURSIVE SortPairs(_)
SortPairs(s) ==
    IF s = <<>> THEN <<>>
    ELSE LET rest == SortPairs(Tail(s))
             x == Head(s)
             k == Cardinality({i \in 1..Len(rest) : ~PairLess(x, rest[i])})
         IN  SubSeq(rest, 1, k) \o <<x>> \o SubSeq(rest, k + 1, Len(rest))

-----------------------------------------------------------------------------
(* The object under construction.  attrs names the attributes assigned so  *)
(* far; exc is the exception __init__ raised, if any.                      *)

Absent ==
    [status |-> "absent", entries |-> <<>>, seed |-> None, get_method |-> "none",
     attrs |-> {}, exc |-> NoExc,
     numbers |-> <<>>, probabilities |-> <<>>, population_size |-> 0,
     tier_one_size |-> 0, getNumber |-> "virtual",
     private_numbers |-> <<>>, weights |-> <<>>, min_prob |-> 0,
     weight_groups |-> <<>>, selection_table |-> <<>>, selection_table_len |-> 0,
     draws |-> <<>>]

Raised(self) == self.exc # NoExc

\* _checkInput, the duplicate scan: number_dup_check maps a number seen to its position.
RECURSIVE DupScan(_, _, _)
DupScan(numbers, i, number_dup_check) ==
    IF i > Len(numbers) THEN NoExc
    ELSE LET n == numbers[i]
         IN  IF n \in DOMAIN number_dup_check
             THEN Exc("ValueError", "_checkInput", "duplicate", i - 1, number_dup_check[n])
             ELSE DupScan(numbers, i + 1,
                          [m \in DOMAIN number_dup_check \cup {n} |->
                              IF m = n THEN i - 1 ELSE number_dup_check[m]])

\* _checkInput, the probability scan: the first p >= 1.0.
ProbScan(probabilities) ==
    LET bad == {i \in 1..Len(probabilities) : probabilities[i] >= One}
    IN  IF bad = {} THEN NoExc
        ELSE LET i == CHOOSE j \in bad : \A k \in bad : j <= k
             IN  Exc("ValueError", "_checkInput", "probability", i - 1, probabilities[i])

\* A variant of _checkInput that scans the probabilities before the numbers.
_checkInput_probabilitiesFirst(self) ==
    LET e == ProbScan(self.probabilities)
    IN  IF e # NoExc THEN [self EXCEPT !.exc = e]
        ELSE [self EXCEPT !.exc = DupScan(self.numbers, 1, <<>>)]

_checkInput(self) ==
    LET d == DupScan(self.numbers, 1, <<>>)
    IN  IF d # NoExc THEN [self EXCEPT !.exc = d]
        ELSE [self EXCEPT !.exc = ProbScan(self.probabilities)]

\* _normalizeProbabilities from the sort on: the two lists rebuilt in the
\* order of the sorted (probability, number) pairs.
Unzipped(self, min_prob, prob_nums) ==
    [self EXCEPT !.min_prob = min_prob,
                 !.attrs = @ \cup {"min_prob", "normalizer"},
                 !.probabilities = [i \in 1..Len(prob_nums) |-> prob_nums[i][1]],
                 !.numbers = [i \in 1..Len(prob_nums) |-> prob_nums[i][2]]]

\* _normalizeProbabilities once min_prob is known.
NormalizedBy(self, min_prob) ==
    IF min_prob = 0
    THEN [self EXCEPT !.min_prob = min_prob,
                      !.attrs = @ \cup {"min_prob"},
                      !.exc = Exc("ZeroDivisionError", "_normalizeProbabilities",
                                  "float division by zero", None, None)]
    ELSE Unzipped(self, min_prob,
                  SortPairs([i \in 1..Len(self.probabilities) |->
                                <<NormalizedWeight(self.probabilities[i], min_prob,
                                                   Rounder(self.population_size)),
                                  self.numbers[i]>>]))

_normalizeProbabilities(self) ==
    IF self.probabilities = <<>>
    THEN [self EXCEPT !.exc =
             Exc("ValueError", "_normalizeProbabilities", "min of empty sequence", None, None)]
    ELSE NormalizedBy(self, SeqMin(self.probabilities))

\* previous = -1, the loop's "no group yet" mark, in units of 1/WeightUnit.
NoPrevious == -1 * WeightUnit

\* _createWeightGroups, the loop over range(population_size) and the final append.
RECURSIVE GroupScan(_, _, _, _, _, _)
GroupScan(numbers, probabilities, i, weight_groups, group, previous) ==
    IF i > Len(numbers)
    THEN IF group # <<>>
         THEN Append(weight_groups, <<probabilities[Len(numbers)], group>>)
         ELSE weight_groups
    ELSE LET n == numbers[i]
             p == probabilities[i]
         IN  IF p # previous
             THEN GroupScan(numbers, probabilities, i + 1,
                            IF previous # NoPrevious
                                THEN Append(weight_groups, <<previous, group>>)
                                ELSE weight_groups,
                            <<n>>, p)
             ELSE GroupScan(numbers, probabilities, i + 1,
                            weight_groups, Append(group, n), previous)

_createWeightGroups(self) ==
    LET weight_groups == GroupScan(self.numbers, self.probabilities, 1, <<>>, <<>>, NoPrevious)
    IN  [self EXCEPT !.weight_groups = weight_groups,
                     !.tier_one_size = Len(weight_groups),
                     !.attrs = @ \cup {"weight_groups"}]

\* A variant that forgets the size of the group.
Replicas_ignoreSize(p, nums_len) == IntTrunc(p, WeightUnit)

\* w = int(p * nums_len), p the float of the decimal p/WeightUnit.  The
\* boundary: an integer product of a weight that is not an integer.
Replicas(p, nums_len) ==
    IF (p * nums_len) % WeightUnit = 0 /\ p % WeightUnit # 0
    THEN FloatInt(FloatMul(Float(p, WeightUnit), Float(nums_len, 1)))
    ELSE IntTrunc(p * nums_len, WeightUnit)

\* for _ in range(w): selection_table.append((nums_len, nums))
Copies(x, w) == [k \in 1..w |-> x]

RECURSIVE TableScan(_, _, _)
TableScan(weight_groups, i, selection_table) ==
    IF i > Len(weight_groups) THEN selection_table
    ELSE LET p == weight_groups[i][1]
             nums == weight_groups[i][2]
             nums_len == Len(nums)
             w == Replicas(p, nums_len)
         IN  TableScan(weight_groups, i + 1,
                       selection_table \o Copies(<<nums_len, nums>>, w))

_createSelectionTable(self) ==
    LET selection_table == TableScan(self.weight_groups, 1, <<>>)
    IN  [self EXCEPT !.selection_table = selection_table,
                     !.selection_table_len = Len(selection_table),
                     !.attrs = @ \cup {"selection_table", "selection_table_len"}]

\* __init__ after _normalizeProbabilities: nothing more once it has raised.
AfterNormalizeProbabilities(self) ==
    IF Raised(self) THEN self ELSE _createSelectionTable(_createWeightGroups(self))

\* __init__ after _checkInput: nothing more once it has raised.
AfterCheckInput(self) ==
    IF Raised(self) THEN self ELSE AfterNormalizeProbabilities(_normalizeProbabilities(self))

\* __init__ up to the choice of the method.
Assigned(number_probability_list, seed, get_method, numbers, probabilities) ==
    [Absent EXCEPT
        !.entries = number_probability_list,
        !.seed = seed,
        !.get_method = get_method,
        !.numbers = numbers,
        !.probabilities = probabilities,
        !.population_size = Len(number_probability_list),
        !.tier_one_size = 0,
        !.attrs = {"numbers", "probabilities", "population_size",
                   "tier_one_size", "getNumber"}]

\* __init__ from the choice of the method on.
Prepared(s0) ==
    IF s0.get_method = "simple"
    THEN [s0 EXCEPT !.getNumber = "_getNumberSimple",
                    !.private_numbers = s0.numbers,
                    !.weights = s0.probabilities,
                    !.attrs = @ \cup {"__numbers", "weights"}]
    ELSE AfterCheckInput(_checkInput([s0 EXCEPT !.getNumber = "_getNumberTwoTier"]))

\* DartBoard.__init__: the object it leaves behind, with exc set when it raised.
DartBoard(number_probability_list, seed, get_method) ==
    Prepared(Assigned(number_probability_list, seed, get_method,
                      [i \in 1..Len(number_probability_list) |-> number_probability_list[i][1]],
                      [i \in 1..Len(number_probability_list) |-> number_probability_list[i][2]]))

-----------------------------------------------------------------------------
(* The generator of `random` and the two draw methods.                     *)
(*                                                                         *)
(* The module-level generator is one process-wide object.  The numbers it  *)
(* returns are not computed here: a call may return any value of its range.*)
(* What is kept is that the generator is deterministic: after              *)
(* random.seed(n) for a number n the same calls get the answers they got   *)
(* after every earlier random.seed(n).  tape[n] holds, in order, the calls *)
(* answered so far on the stream of seed n with their answers.  rng is the *)
(* state of the generator: the seed it was last given, the number of calls *)
(* answered since (pos), and whether those calls are the first pos calls   *)
(* of tape[seed] (known).  Nothing is recorded of a generator seeded from  *)
(* the system (seed None) or of one whose calls have left the tape.        *)

Unknown == [seed |-> None, pos |-> 0, known |-> FALSE]

\* random.seed(seed): a number fixes the state, None takes it from the system.
Seeded(seed) ==
    IF seed = None THEN Unknown ELSE [seed |-> seed, pos |-> 0, known |-> TRUE]

\* Whether the next call of the generator g is on the tape t, and is this call.
OnTape(g, t) == g.known /\ g.pos < Len(t[g.seed])

Replayed(g, t, req) == OnTape(g, t) /\ t[g.seed][g.pos + 1].call = req.call

\* The answers the generator g can give to the request req.
Answers(g, t, req) ==
    IF Replayed(g, t, req) THEN {t[g.seed][g.pos + 1].out} ELSE req.range

\* The generator and the tape once req was answered with out.
Advance(g, t, req, out) ==
    IF ~g.known THEN [rng |-> g, tape |-> t]
    ELSE IF Replayed(g, t, req) THEN [rng |-> [g EXCEPT !.pos = @ + 1], tape |-> t]
    ELSE IF OnTape(g, t) THEN [rng |-> Unknown, tape |-> t]
    ELSE [rng |-> [g EXCEPT !.pos = @ + 1],
          tape |-> [t EXCEPT ![g.seed] = Append(@, [call |-> req.call, out |-> out])]]

\* random.randrange(n), n > 0: any of 0 .. n-1.
Randrange(n) == [call |-> <<"randrange", <<n>>>>, range |-> 0..(n - 1)]

\* One more step of itertools.accumulate: cum the sums so far, w the next weight.
Accumulated(cum, w) ==
    IF cum = <<>> THEN <<w>> ELSE Append(cum, FloatAdd(cum[Len(cum)], w))

\* list(itertools.accumulate(weights)): the running float sums of the weights,
\* each weight the float of the literal weights[i]/One.
RECURSIVE Accumulate(_)
Accumulate(weights) ==
    IF weights = <<>> THEN <<>>
    ELSE Accumulated(Accumulate(SubSeq(weights, 1, Len(weights) - 1)),
                     Float(weights[Len(weights)], One))

\* bisect.bisect(cum_weights, x, lo, hi); lo, hi and the result are Python's
\* 0-based indices.
RECURSIVE Bisect(_, _, _, _)
Bisect(cum_weights, x, lo, hi) ==
    IF lo < hi
    THEN IF FloatLess(x, cum_weights[(lo + hi) \div 2 + 1])
         THEN Bisect(cum_weights, x, lo, (lo + hi) \div 2)
         ELSE Bisect(cum_weights, x, (lo + hi) \div 2 + 1, hi)
    ELSE lo

\* random() is k / 2^MantissaBits for any k of 0 .. 2^MantissaBits - 1;
\* this is random() * total for the natural k.
RandomTimes(k, total) ==
    IF k = <<>> THEN FloatZero
    ELSE FloatMul(Nearest(FALSE, k, -MantissaBits, FALSE), total)

\* floor(ma * Limb^QuotientLimbs / mt) for the significands ma, mt of two floats.
WideQuotient(ma, mt) ==
    IF BigLess(ma, mt) THEN Trim(DivLimbs(ma, QuotientLimbs, mt).q)
    ELSE BigAdd(Shl(<<1>>, LimbBits * QuotientLimbs),
                Trim(DivLimbs(BigSub(ma, mt), QuotientLimbs, mt).q))

\* floor(a * 2^MantissaBits / total) for floats 0 < a < total: the k at which
\* the exact product k / 2^MantissaBits * total reaches a, or the one before.
QuotientFloor(a, total) ==
    Shr(WideQuotient(a.m, total.m),
        LimbBits * QuotientLimbs - MantissaBits - (a.e - total.e))

\* The k around kf that random() can be.
Around(kf) ==
    {k \in {kf, BigAdd(kf, <<1>>)} \cup (IF kf = <<>> THEN {} ELSE {BigSub(kf, <<1>>)}) :
        BitLen(k) <= MantissaBits}

\* Whether random() * total can fall in [a, b), 0 < a < b <= total.  The float
\* product grows with k, and the first k whose product is not below a is next
\* to the k of the exact quotient.
Reachable(a, b, total) ==
    \E k \in Around(QuotientFloor(a, total)) :
        /\ ~FloatLess(RandomTimes(k, total), a)
        /\ FloatLess(RandomTimes(k, total), b)

\* The least of the floats bounds above a.
NextAbove(a, bounds) ==
    CHOOSE b \in {c \in bounds : FloatLess(a, c)} :
        \A c \in bounds : FloatLess(a, c) => ~FloatLess(c, b)

\* The values of random() * total at which a result of bisect begins: 0 and the
\* elements of cum_weights inside (0, total).
Breaks(cum_weights, total) ==
    {FloatZero} \cup {cum_weights[i] : i \in {j \in 1..Len(cum_weights) :
                         FloatLess(FloatZero, cum_weights[j]) /\ FloatLess(cum_weights[j], total)}}

\* Whether the sums a and b are sums of different decimals: then they are
\* about 1/One apart or more, and the values of random() * total, less than
\* one part in 2^50 of total from one to the next, do not skip [a, b).
Apart(a, b) == FloatRound(a, One) # FloatRound(b, One)

\* Whether random() * total has a value from the break a up to the next, b.
ReachableUpTo(a, b, total) == Apart(a, b) \/ Reachable(a, b, total)

\* The breaks from which on random() * total has values before the next break.
ReachableBreaks(breaks, total) ==
    {a \in breaks :
        a = FloatZero \/ ReachableUpTo(a, NextAbove(a, breaks \cup {total}), total)}

\* bisect(cum_weights, random() * total, 0, hi) for total > 0: the product is a
\* float of [0, total), and the result only changes where it passes an element
\* of cum_weights.
BisectRandom(cum_weights, total, hi) ==
    [call |-> <<"choices", cum_weights>>,
     range |-> {Bisect(cum_weights, x, 0, hi) :
                   x \in ReachableBreaks(Breaks(cum_weights, total), total)}]

\* random.choices, the list comprehension: the element at the index bisect gives.
ChoicesBy(population, req, g, t) ==
    {LET after == Advance(g, t, req, i)
     IN  [result |-> Return(population[i + 1]),
          rng |-> after.rng, tape |-> after.tape] :
     i \in Answers(g, t, req)}

\* random.choices from `total = cum_weights[-1] + 0.0` on, n > 0.
ChoicesOf(population, cum_weights, total, g, t) ==
    IF ~FloatLess(FloatZero, total)
    THEN {[result |-> Raise(Exc("ValueError", "_getNumberSimple",
                                "Total of weights must be greater than zero",
                                None, None)),
           rng |-> g, tape |-> t]}
    ELSE ChoicesBy(population, BisectRandom(cum_weights, total, Len(population) - 1), g, t)

\* random.choices from cum_weights on.
ChoicesFrom(population, cum_weights, g, t) ==
    ChoicesOf(population, cum_weights,
              FloatAdd(cum_weights[Len(cum_weights)], FloatZero), g, t)

\* random.choices(population, weights, k=1)[0]: the outcomes it can have, each
\* with the generator and the tape it leaves.
Choices(population, weights, g, t) ==
    IF Len(population) = 0
    THEN {[result |-> Raise(Exc("IndexError", "_getNumberSimple",
                                "list index out of range", None, None)),
           rng |-> g, tape |-> t]}
    ELSE ChoicesFrom(population, Accumulate(weights), g, t)

_getNumberSimple(self, g, t) == Choices(self.private_numbers, self.weights, g, t)

\* A variant of the look-up that returns the second index in place of the number.
TwoTierLookup_index(self, rand, rand2) ==
    LET nums_len == self.selection_table[rand + 1][1]
        nums == self.selection_table[rand + 1][2]
    IN  IF nums_len = 1 THEN nums[1] ELSE rand2

\* The table look-up of _getNumberTwoTier for the two indices drawn (0-based).
TwoTierLookup(self, rand, rand2) ==
    LET nums_len == self.selection_table[rand + 1][1]
        nums == self.selection_table[rand + 1][2]
    IN  IF nums_len = 1 THEN nums[1] ELSE nums[rand2 + 1]

\* The second step of _getNumberTwoTier, rand drawn and the generator at g.
TierTwo(self, rand, g, t) ==
    LET nums_len == self.selection_table[rand + 1][1]
        req == Randrange(nums_len)
    IN  IF nums_len = 1
        THEN {[result |-> Return(TwoTierLookup(self, rand, 0)), rng |-> g, tape |-> t]}
        ELSE {LET after == Advance(g, t, req, rand2)
              IN  [result |-> Return(TwoTierLookup(self, rand, rand2)),
                   rng |-> after.rng, tape |-> after.tape] :
              rand2 \in Answers(g, t, req)}

_getNumberTwoTier(self, g, t) ==
    IF self.selection_table_len = 0
    THEN {[result |-> Raise(Exc("ValueError", "_getNumberTwoTier",
                                "empty range for randrange()", None, None)),
           rng |-> g, tape |-> t]}
    ELSE LET req == Randrange(self.selection_table_len)
         IN  UNION {LET after == Advance(g, t, req, rand)
                    IN  TierTwo(self, rand, after.rng, after.tape) :
                    rand \in Answers(g, t, req)}

\* self.getNumber(), bound by __init__ to one of the two methods.
getNumber(self, g, t) ==
    IF self.getNumber = "_getNumberSimple" THEN _getNumberSimple(self, g, t)
    ELSE _getNumberTwoTier(self, g, t)

-----------------------------------------------------------------------------
(* Actions: a call of the constructor, a call of getNumber.                *)

\* The attribute selection_table of an object that has none.
NoList == 0

\* The objects of the process, each with the list its selection_table refers to.
eng ==
    [id \in DOMAIN objects |->
        [objects[id] EXCEPT !.selection_table = IF @ = NoList THEN <<>> ELSE lists[@]]]

\* The object as the caller finds it: built, or lost to the exception.
Returned(self) == [self EXCEPT !.status = IF Raised(self) THEN "raised" ELSE "ok"]

\* A variant in which selection_table is an attribute of the class: the first
\* table list made is the list of every object, and each _createSelectionTable
\* appends to it and takes its length.
Allocated_classAttribute(self, h) ==
    IF "selection_table" \notin self.attrs
    THEN [self |-> [self EXCEPT !.selection_table = NoList], lists |-> h]
    ELSE IF h = <<>>
    THEN [self |-> [self EXCEPT !.selection_table = 1], lists |-> <<self.selection_table>>]
    ELSE [self |-> [self EXCEPT !.selection_table = 1,
                                !.selection_table_len = Len(h[1] \o self.selection_table)],
          lists |-> [h EXCEPT ![1] = @ \o self.selection_table]]

\* The object self that __init__ built, among the lists h of the process:
\* `self.selection_table = []` of _createSelectionTable made a new list, which
\* the appends filled, and self refers to it.
Allocated(self, h) ==
    IF "selection_table" \notin self.attrs
    THEN [self |-> [self EXCEPT !.selection_table = NoList], lists |-> h]
    ELSE [self |-> [self EXCEPT !.selection_table = Len(h) + 1],
          lists |-> Append(h, self.selection_table)]

Construct(id, populations, seeds, methods) ==
    /\ eng[id].status = "absent"
    /\ \E number_probability_list \in populations, seed \in seeds, get_method \in methods :
           \E built \in {Allocated(Returned(DartBoard(number_probability_list, seed,
                                                      get_method)), lists)} :
               /\ objects' = [objects EXCEPT ![id] = built.self]
               /\ lists' = built.lists
               /\ rng' = Seeded(seed)
               /\ tape' = tape

GetNumber(id) ==
    /\ eng[id].status = "ok"
    /\ Len(eng[id].draws) < MaxDraws
    /\ \E out \in getNumber(eng[id], rng, tape) :
           /\ objects' = [objects EXCEPT ![id].draws = Append(@, out.result)]
           /\ lists' = lists
           /\ rng' = out.rng
           /\ tape' = out.tape

\* The generator as the import of `random` leaves it, and nothing on the tape.
InitRandom ==
    /\ rng = Seeded(None)
    /\ tape = [seed \in (Seeds \cup SeedsTwo) \ {None} |-> <<>>]

\* No object constructed and no table list made.
InitObjects(ids) ==
    /\ objects = [id \in ids |-> [Absent EXCEPT !.selection_table = NoList]]
    /\ lists = <<>>

Init ==
    /\ InitObjects({1})
    /\ InitRandom

NewDartBoard == \E id \in DOMAIN eng : Construct(id, Populations, Seeds, Methods)

CallGetNumber == \E id \in DOMAIN eng : GetNumber(id)

Next == NewDartBoard \/ CallGetNumber

Spec == Init /\ [][Next]_vars

(* Two objects in one process, sharing the generator of `random`.          *)

PopulationsTwo ==
    {<< >>,
     <<<<1, 2500>>, <<2, 5000>>, <<7, 2500>>>>,
     <<<<1, 5000>>, <<2, 7501>>>>,
     <<<<1, 10000>>>>}

InitTwo ==
    /\ InitObjects({1, 2})
    /\ InitRandom

NewDartBoardTwo ==
    \E id \in DOMAIN eng : Construct(id, PopulationsTwo, SeedsTwo, MethodsTwo)

NextTwo == NewDartBoardTwo \/ CallGetNumber

SpecTwo == InitTwo /\ [][NextTwo]_vars

(* Three two-tier objects in one process: two of the same entries and one  *)
(* constructed, and drawn from, between them.                              *)

PopulationsThree ==
    {<<<<1, 2500>>, <<2, 5000>>, <<7, 2500>>>>,
     <<<<1, 5000>>, <<2, 7501>>>>}

SeedsThree == {None, 1}

MethodsThree == {"two-tier"}

InitThree ==
    /\ InitObjects({1, 2, 3})
    /\ InitRandom

NewDartBoardThree ==
    \E id \in DOMAIN eng : Construct(id, PopulationsThree, SeedsThree, MethodsThree)

\* The getNumber calls made in the process so far.
DrawsSoFar ==
    Cardinality({call \in (DOMAIN eng) \X (1..MaxDraws) : call[2] <= Len(eng[call[1]].draws)})

CallGetNumberThree ==
    /\ DrawsSoFar < MaxDrawsThree
    /\ \E id \in DOMAIN eng : GetNumber(id)

NextThree == NewDartBoardThree \/ CallGetNumberThree

SpecThree == InitThree /\ [][NextThree]_vars

(* One object over populations whose floats matter: a group of fifteen     *)
(* numbers of weight 8.2, where the float product 8.2 * 15 lies below 123, *)
(* a quotient half-way between two roundings, 0.3999 / 0.2 = 1.9995, and   *)
(* weights whose float sum 0.1 + 0.2 - 0.3 is above 0.                     *)

\* [(0, 0.1)] + [(i, 0.82) for i in range(1, 16)]
GroupOfFifteen == <<<<0, 1000>>>> \o [i \in 1..15 |-> <<i, 8200>>]

PopulationsLarge ==
    {GroupOfFifteen,
     <<<<1, 2000>>, <<2, 3999>>>>,
     <<<<1, 1000>>, <<2, 2000>>, <<7, -3000>>>>,
     <<<<1, 2500>>, <<2, 5000>>, <<7, 2500>>>>}

SeedsLarge == {None}

NewDartBoardLarge ==
    \E id \in DOMAIN eng : Construct(id, PopulationsLarge, SeedsLarge, Methods)

NextLarge == NewDartBoardLarge \/ CallGetNumber

SpecLarge == Init /\ [][NextLarge]_vars

-----------------------------------------------------------------------------
(* Properties.  An object is "constructed" when __init__ returned it       *)
(* (status "ok"); it "failed" when __init__ raised (status "raised").      *)

Called(id) == eng[id].status # "absent"

PopulationValues(id) == {eng[id].entries[i][1] : i \in 1..Len(eng[id].entries)}

HasDuplicate(entries) ==
    \E i, j \in 1..Len(entries) : i < j /\ entries[i][1] = entries[j][1]

HasHighProbability(entries) ==
    \E i \in 1..Len(entries) : entries[i][2] >= One

\* C1: every value a constructed object's getNumber returned, with either method
\* and after any number of earlier draws, is the value of some entry of the
\* population the object was constructed from.
C1_DrawReturnsPopulationValue ==
    \A id \in DOMAIN eng :
        \A k \in 1..Len(eng[id].draws) :
            eng[id].draws[k].returned => eng[id].draws[k].value \in PopulationValues(id)

\* A two-tier object over three entries whose second draw returned another
\* value than its first.
C1_Witness ==
    \E id \in DOMAIN eng :
        /\ eng[id].status = "ok"
        /\ eng[id].get_method = "two-tier"
        /\ Len(eng[id].entries) = 3
        /\ Len(eng[id].draws) = 2
        /\ eng[id].draws[1].returned
        /\ eng[id].draws[2].returned
        /\ eng[id].draws[1].value # eng[id].draws[2].value

\* C2: with the default two-tier method a population in which two entries share
\* a value makes the constructor raise the duplicate error, naming the position
\* of the first entry that repeats an earlier value and the position of the first
\* occurrence of that value, also when a probability >= 1.0 is present; no weight
\* groups and no selection table are built.
C2_DuplicateReported ==
    \A id \in DOMAIN eng :
        LET entries == eng[id].entries
            repeats == {j \in 1..Len(entries) :
                           \E i \in 1..(j - 1) : entries[i][1] = entries[j][1]}
        IN  (Called(id) /\ eng[id].get_method = "two-tier" /\ repeats # {}) =>
                LET j == CHOOSE x \in repeats : \A y \in repeats : x <= y
                    first == CHOOSE x \in 1..j :
                                 /\ entries[x][1] = entries[j][1]
                                 /\ \A y \in 1..(x - 1) : entries[y][1] # entries[j][1]
                IN  /\ eng[id].status = "raised"
                    /\ eng[id].exc.type = "ValueError"
                    /\ eng[id].exc.what = "duplicate"
                    /\ eng[id].exc.position = j - 1
                    /\ eng[id].exc.other = first - 1
                    /\ eng[id].attrs \cap {"weight_groups", "selection_table"} = {}

\* A population whose first entry has probability 1.0 and whose third entry
\* repeats the value of the second: the duplicate is what is reported.
C2_Witness ==
    \E id \in DOMAIN eng :
        /\ eng[id].get_method = "two-tier"
        /\ Len(eng[id].entries) = 3
        /\ eng[id].entries[1][2] >= One
        /\ eng[id].entries[1][1] # eng[id].entries[2][1]
        /\ eng[id].entries[2][1] = eng[id].entries[3][1]
        /\ eng[id].status = "raised"
        /\ eng[id].exc.what = "duplicate"
        /\ eng[id].exc.position = 2
        /\ eng[id].exc.other = 1

\* A population that input validation is to accept, whatever the sum of
\* its probabilities: not empty, values pairwise distinct, 0 < p < 1.0.
ValidPopulation(entries) ==
    /\ entries # << >>
    /\ ~HasDuplicate(entries)
    /\ \A i \in 1..Len(entries) : 0 < entries[i][2] /\ entries[i][2] < One

\* C3: whichever method is selected ('two-tier' or 'simple'), a population that
\* contains a probability >= 1.0 makes the constructor raise the
\* invalid-probability error naming an offending position; no object to draw
\* from is produced.  Stated for the populations of pairwise distinct values,
\* where no duplicate error can come first (C2).
C3_HighProbabilityRejected ==
    \A id \in DOMAIN eng :
        (/\ Called(id)
         /\ eng[id].get_method \in {"two-tier", "simple"}
         /\ ~HasDuplicate(eng[id].entries)
         /\ HasHighProbability(eng[id].entries)) =>
            /\ eng[id].status = "raised"
            /\ eng[id].exc.what = "probability"
            /\ eng[id].exc.position + 1 \in 1..Len(eng[id].entries)
            /\ eng[id].entries[eng[id].exc.position + 1][2] >= One

\* C4: an empty population makes the constructor raise an explicit
\* empty-population error from input validation, before normalization starts,
\* not the fault of taking the minimum of no probabilities.
C4_EmptyRejectedByValidation ==
    \A id \in DOMAIN eng :
        (Called(id) /\ eng[id].entries = << >>) =>
            /\ eng[id].status = "raised"
            /\ eng[id].exc.raised_in = "_checkInput"

\* C5: a method selector that is neither 'two-tier' nor 'simple' makes the
\* constructor raise the invalid-method error, for every population; no object
\* is produced.  Stated for the otherwise valid populations the claim names.
C5_UnknownMethodRejected ==
    \A id \in DOMAIN eng :
        (/\ Called(id)
         /\ eng[id].get_method \notin {"two-tier", "simple"}
         /\ ValidPopulation(eng[id].entries)) =>
            /\ eng[id].status = "raised"
            /\ eng[id].exc.what = "method"

\* C6: errors surface only at construction: every getNumber of a constructed
\* object, with either method, returns a value and raises nothing, any number of
\* times.  (That a constructed two-tier object's table is not empty and that a
\* constructed 'simple' object holds a usable population are what this needs.)
C6_DrawNeverRaises ==
    \A id \in DOMAIN eng :
        \A k \in 1..Len(eng[id].draws) : eng[id].draws[k].returned

Min(a, b) == IF a <= b THEN a ELSE b

\* C7: two two-tier objects constructed from the same entries with the same
\* seed hold identical selection tables: the same length and at every index the
\* same group size and the same ordered group values, whatever was constructed
\* or drawn in the process between the two constructions.
C7_SameTable ==
    \A a, b \in DOMAIN eng :
        (/\ eng[a].status = "ok"
         /\ eng[b].status = "ok"
         /\ eng[a].getNumber = "_getNumberTwoTier"
         /\ eng[b].getNumber = "_getNumberTwoTier"
         /\ eng[a].entries = eng[b].entries
         /\ eng[a].seed = eng[b].seed) =>
            /\ eng[a].selection_table_len = eng[b].selection_table_len
            /\ Len(eng[a].selection_table) = Len(eng[b].selection_table)
            /\ \A i \in 1..Len(eng[a].selection_table) :
                   /\ eng[a].selection_table[i][1] = eng[b].selection_table[i][1]
                   /\ eng[a].selection_table[i][2] = eng[b].selection_table[i][2]

\* Two two-tier objects a and b of the same three entries and the same seed
\* and a third, c, of other entries.  The table list of c was made after that
\* of a and before that of b, so c was constructed between the two; a and c
\* have drawn and the generator is as the constructor of b seeded it, so they
\* drew before b was constructed.
C7_Witness ==
    \E a, b, c \in DOMAIN eng :
        /\ a # b /\ c # a /\ c # b
        /\ \A id \in {a, b, c} :
               eng[id].status = "ok" /\ eng[id].get_method = "two-tier"
        /\ eng[a].entries = eng[b].entries
        /\ eng[a].seed = eng[b].seed
        /\ eng[a].seed # None
        /\ Len(eng[a].entries) = 3
        /\ eng[c].entries # eng[a].entries
        /\ objects[a].selection_table < objects[c].selection_table
        /\ objects[c].selection_table < objects[b].selection_table
        /\ Len(eng[a].draws) = MaxDraws
        /\ eng[c].draws # <<>>
        /\ eng[b].draws = <<>>
        /\ rng = Seeded(eng[b].seed)
        /\ eng[b].selection_table_len > 1

\* C8: two objects constructed with identical entries, an identical seed that
\* is not None and an identical method return the same value on their k-th
\* draw, for every k and in every order in which the constructions and draws of
\* the two are interleaved.
C8_SameDrawSequence ==
    \A a, b \in DOMAIN eng :
        (/\ eng[a].status = "ok"
         /\ eng[b].status = "ok"
         /\ eng[a].entries = eng[b].entries
         /\ eng[a].seed = eng[b].seed
         /\ eng[a].seed # None
         /\ eng[a].get_method = eng[b].get_method) =>
            \A k \in 1..Min(Len(eng[a].draws), Len(eng[b].draws)) :
                eng[a].draws[k] = eng[b].draws[k]

-----------------------------------------------------------------------------
(* The distribution of the two-tier draw, every index of the selection     *)
(* table taken as equally likely and then every index of the chosen group. *)

TwoTierBuilt(id) ==
    eng[id].status = "ok" /\ eng[id].getNumber = "_getNumberTwoTier"

\* A common multiple of the group sizes: the product of them.
RECURSIVE SizeProduct(_)
SizeProduct(weight_groups) ==
    IF weight_groups = <<>> THEN 1
    ELSE Len(Head(weight_groups)[2]) * SizeProduct(Tail(weight_groups))

\* SizeProduct * (the sum over the first i table indices of the share of the
\* group's indices at which the look-up gives v): the probability of v is
\* DrawMass(self, v, selection_table_len) / (selection_table_len * SizeProduct).
RECURSIVE DrawMass(_, _, _)
DrawMass(self, v, i) ==
    IF i = 0 THEN 0
    ELSE LET nums_len == self.selection_table[i][1]
             hits == {j \in 0..(nums_len - 1) : TwoTierLookup(self, i - 1, j) = v}
         IN  DrawMass(self, v, i - 1)
                 + Cardinality(hits) * (SizeProduct(self.weight_groups) \div nums_len)

RECURSIVE SeqSum(_)
SeqSum(s) == IF s = <<>> THEN 0 ELSE Head(s) + SeqSum(Tail(s))

\* The rounded normalized weight the object holds for the number v.
WeightOf(self, v) ==
    self.probabilities[CHOOSE i \in 1..Len(self.numbers) : self.numbers[i] = v]

\* A value of a group with R table entries and g members has probability
\* R / (selection_table_len * g).
GroupShare(id) ==
    LET self == eng[id]
    IN  \A k \in 1..Len(self.weight_groups) :
            LET nums == self.weight_groups[k][2]
                R == Cardinality({i \in 1..Len(self.selection_table) :
                                     self.selection_table[i][2] = nums})
            IN  \A m \in 1..Len(nums) :
                    DrawMass(self, nums[m], self.selection_table_len) * Len(nums)
                        = R * SizeProduct(self.weight_groups)

\* The probability of every value is probability(v) / (sum of all probabilities).
ExactShare(id) ==
    LET self == eng[id]
        total == SeqSum([i \in 1..Len(self.entries) |-> self.entries[i][2]])
    IN  \A i \in 1..Len(self.entries) :
            DrawMass(self, self.entries[i][1], self.selection_table_len) * total
                = self.entries[i][2] * self.selection_table_len
                    * SizeProduct(self.weight_groups)

IntegerWeights(id) ==
    \A i \in 1..Len(eng[id].probabilities) : eng[id].probabilities[i] % WeightUnit = 0

\* Rounding changed no weight: each is probability / minimum probability exactly.
UnroundedWeights(id) ==
    \A i \in 1..Len(eng[id].entries) :
        WeightOf(eng[id], eng[id].entries[i][1]) * eng[id].min_prob
            = eng[id].entries[i][2] * WeightUnit

\* C9 as stated: in a two-tier draw a value of a group with R table entries and g
\* members is returned with probability R / (table length x g), and for every
\* valid population whose rounded normalized weights are all integers this is
\* exactly probability(v) / (sum of all probabilities).
C9_ShareOfRoundedIntegerWeights ==
    \A id \in DOMAIN eng :
        TwoTierBuilt(id) =>
            /\ GroupShare(id)
            /\ (ValidPopulation(eng[id].entries) /\ IntegerWeights(id)) => ExactShare(id)

\* C9 amended: a value of a group with R table entries and g members is returned
\* with probability R / (table length x g), and for every valid population whose
\* rounded normalized weights are all integers and are each exactly
\* probability / minimum probability (rounding changed none) this is exactly
\* probability(v) / (sum of all probabilities).
C9_ShareOfExactIntegerWeights ==
    \A id \in DOMAIN eng :
        TwoTierBuilt(id) =>
            /\ GroupShare(id)
            /\ (/\ ValidPopulation(eng[id].entries)
                /\ IntegerWeights(id)
                /\ UnroundedWeights(id)) => ExactShare(id)

\* The population [(1, 0.25), (2, 0.50), (7, 0.25)], two-tier, after a draw: a
\* group of two members with two of the four table entries.
C9_Witness ==
    \E id \in DOMAIN eng :
        /\ TwoTierBuilt(id)
        /\ eng[id].entries = <<<<1, 2500>>, <<2, 5000>>, <<7, 2500>>>>
        /\ eng[id].selection_table_len = 4
        /\ eng[id].weight_groups[1] = <<WeightUnit, <<1, 7>>>>
        /\ IntegerWeights(id)
        /\ UnroundedWeights(id)
        /\ Len(eng[id].draws) > 0

-----------------------------------------------------------------------------
(* The layout of the selection table.                                      *)

\* floor(weight x |values|) of group k.
Entitled(self, k) ==
    (self.weight_groups[k][1] * Len(self.weight_groups[k][2])) \div WeightUnit

\* The sum of Entitled over the groups before group k.
RECURSIVE Offset(_, _)
Offset(self, k) ==
    IF k <= 1 THEN 0 ELSE Offset(self, k - 1) + Entitled(self, k - 1)

TableLayout(self) ==
    /\ self.selection_table_len = Len(self.selection_table)
    /\ Len(self.selection_table) = Offset(self, Len(self.weight_groups) + 1)
    /\ \A k \in 1..Len(self.weight_groups) :
           \A i \in 1..Entitled(self, k) :
               /\ Offset(self, k) + i \in 1..Len(self.selection_table)
               /\ self.selection_table[Offset(self, k) + i]
                      = <<Len(self.weight_groups[k][2]), self.weight_groups[k][2]>>

EqualProbabilities(entries) ==
    \A i, j \in 1..Len(entries) : entries[i][2] = entries[j][2]

\* C10, for the populations of the data model (distinct values, probabilities
\* strictly between 0 and 1): after a successful two-tier construction the
\* selection table is, group by group in weight-group order, exactly
\* floor(weight x |values|) consecutive entries (|values|, values) and nothing
\* else, so its length is the sum of floor(weight x |values|); when all N
\* entries have the same probability the length is N.
C10_TableOfFloors ==
    \A id \in DOMAIN eng :
        (TwoTierBuilt(id) /\ ValidPopulation(eng[id].entries)) =>
            /\ TableLayout(eng[id])
            /\ EqualProbabilities(eng[id].entries) =>
                   eng[id].selection_table_len = Len(eng[id].entries)

-----------------------------------------------------------------------------
(* The weight groups.                                                      *)

\* The places (group, index in the group) at which the groups hold the number v.
PlacesOf(self, v) ==
    {pl \in (1..Len(self.weight_groups)) \X (1..MaxPop + 1) :
        /\ pl[2] <= Len(self.weight_groups[pl[1]][2])
        /\ self.weight_groups[pl[1]][2][pl[2]] = v}

\* C11: for every population that passes input validation (values pairwise
\* distinct, every probability < 1.0, non-positive ones included) and whose
\* normalization completes, the weight groups partition the population: every
\* value is in exactly one group exactly once, the values of a group share the
\* group's rounded normalized weight, the group weights are strictly ascending,
\* and tier_one_size is the number of distinct rounded normalized weights.
C11_GroupsPartitionPopulation ==
    \A id \in DOMAIN eng :
        TwoTierBuilt(id) =>
            LET self == eng[id]
            IN  /\ \A v \in PopulationValues(id) : Cardinality(PlacesOf(self, v)) = 1
                /\ \A k \in 1..Len(self.weight_groups) :
                       \A m \in 1..Len(self.weight_groups[k][2]) :
                           /\ self.weight_groups[k][2][m] \in PopulationValues(id)
                           /\ WeightOf(self, self.weight_groups[k][2][m])
                                  = self.weight_groups[k][1]
                /\ \A k, l \in 1..Len(self.weight_groups) :
                       k < l => self.weight_groups[k][1] < self.weight_groups[l][1]
                /\ self.tier_one_size
                       = Cardinality({self.probabilities[i] : i \in 1..Len(self.probabilities)})

-----------------------------------------------------------------------------
(* Reachability of the population by the two-tier draw.                    *)

\* The number of selection-table entries that refer to the k-th weight group.
TableEntriesOf(self, k) ==
    Cardinality({i \in 1..Len(self.selection_table) :
                    self.selection_table[i][2] = self.weight_groups[k][2]})

\* The values _getNumberTwoTier returns over all indices randrange can yield
\* in tier one and in tier two.
TwoTierReturnable(self) ==
    UNION {{TwoTierLookup(self, rand, rand2) :
                rand2 \in 0..(self.selection_table[rand + 1][1] - 1)} :
           rand \in 0..(self.selection_table_len - 1)}

\* C12: for every non-empty population of pairwise distinct values whose
\* probabilities all lie strictly between 0 and 1, every rounded normalized
\* weight is >= 1.0, every weight group has at least as many selection-table
\* entries as members and at least one, and the values the two-tier draw can
\* return are exactly the population.
C12_EveryValueReachable ==
    \A id \in DOMAIN eng :
        (TwoTierBuilt(id) /\ ValidPopulation(eng[id].entries)) =>
            LET self == eng[id]
            IN  /\ \A i \in 1..Len(self.probabilities) :
                       self.probabilities[i] >= WeightUnit
                /\ \A k \in 1..Len(self.weight_groups) :
                       /\ TableEntriesOf(self, k) >= Len(self.weight_groups[k][2])
                       /\ TableEntriesOf(self, k) > 0
                /\ self.selection_table_len = Len(self.selection_table)
                /\ TwoTierReturnable(self) = PopulationValues(id)

\* A two-tier object over three valid entries in two weight groups, one of two
\* members and one whose weight is above 1.0 and not an integer, which has drawn.
C12_Witness ==
    \E id \in DOMAIN eng :
        /\ TwoTierBuilt(id)
        /\ ValidPopulation(eng[id].entries)
        /\ Len(eng[id].entries) = 3
        /\ Len(eng[id].weight_groups) = 2
        /\ Len(eng[id].weight_groups[1][2]) = 2
        /\ eng[id].weight_groups[2][1] > WeightUnit
        /\ eng[id].weight_groups[2][1] % WeightUnit # 0
        /\ TableEntriesOf(eng[id], 1) = 2
        /\ Len(eng[id].draws) = 1

====
